---- MODULE Spec2Model ----
(***************************************************************************)
(* A model of the key pool (resource/pool.go), of the message framer       *)
(* (data/message.go), of the session ledger (data/session.go) and of the   *)
(* command handlers of main.go that drive them.                            *)
(*                                                                         *)
(* The pool file is modelled byte for byte: an 8-byte little-endian header *)
(* followed by the key region.  An open Pool is the pair of the file       *)
(* offset of its descriptor and its in-memory Position.  GetBytes is split *)
(* at the places where the process can stop: after the read, after the     *)
(* header was rewritten, after the descriptor was moved.                   *)
(***************************************************************************)
EXTENDS Integers, Sequences, FiniteSets, TLC

\* ------------------------------------------------------------------ bounds
\* Length, in bytes, of the key source of the pool-level specifications.
PoolLen == 5
\* Largest number of bytes one GetBytes call asks for.
MaxTake == 3
\* Largest chunk count and chunk length of one GetBytesAsChunks call.
MaxChunkCount == 2
MaxChunkLength == 2

\* ------------------------------------------------------- program constants
positionTypeLength == 8
bufferLength == 1024
boundaryLength == 35

Byte == 0..255

Min(a, b) == IF a < b THEN a ELSE b
Max(a, b) == IF a > b THEN a ELSE b

\* ------------------------------------------------------------ byte strings
\* n zero bytes: make([]byte, n).
NoPadding(n) == <<>>
Zeros(n) == [i \in 1..n |-> 0]

\* binary.Write(buffer, binary.LittleEndian, int64): the n low bytes of v,
\* least significant first, two's complement (\div is the floor division).
RECURSIVE LittleEndian(_, _)
LittleEndian(v, n) ==
    IF n = 0 THEN <<>> ELSE <<v % 256>> \o LittleEndian(v \div 256, n - 1)

\* binary.Read(reader, binary.LittleEndian, &int64) of 8 bytes.  Exact on the
\* sign-extended 32-bit range; a value beyond it keeps its sign and saturates.
ReadLowByte(b) == b[1]
ReadInt64(b) ==
    LET IntMax == 2147483647
        IntMin == -2147483647
        low(top) == b[1] + 256 * (b[2] + 256 * (b[3] + 256 * top))
        highZero == \A i \in 5..8 : b[i] = 0
        highOnes == \A i \in 5..8 : b[i] = 255
    IN  IF b[8] < 128
        THEN IF highZero /\ b[4] < 128 THEN low(b[4]) ELSE IntMax
        ELSE IF highOnes /\ b[4] >= 128 THEN Max(low(b[4] - 256), IntMin)
             ELSE IntMin

\* ------------------------------------------------------------------- files
\* os.File.Read at offset off of at most n bytes: what is there, up to EOF.
ReadAt(bytes, off, n) ==
    IF off >= Len(bytes) THEN <<>>
    ELSE SubSeq(bytes, off + 1, Min(off + n, Len(bytes)))

\* os.File.Write of data at offset off: overwrites in place, extends the file
\* (a hole is read back as zeros), never truncates.
WriteAppend(bytes, off, data) == bytes \o data
WriteAt(bytes, off, data) ==
    LET n == Len(bytes)
    IN  IF off <= n
        THEN SubSeq(bytes, 1, off) \o data
                 \o SubSeq(bytes, off + Len(data) + 1, n)
        ELSE bytes \o Zeros(off - n) \o data

\* The cursor persisted in the header of a pool file (-1: no full header).
Cursor(bytes) ==
    IF Len(bytes) < positionTypeLength THEN -1
    ELSE ReadInt64(SubSeq(bytes, 1, positionTypeLength))

\* The key region of a pool file, and its length.
KeyRegion(bytes) ==
    IF Len(bytes) <= positionTypeLength THEN <<>>
    ELSE SubSeq(bytes, positionTypeLength + 1, Len(bytes))
KeyLength(bytes) == Len(KeyRegion(bytes))

\* The key bytes [from, from + n) of the key region.
KeyBytes(bytes, from, n) == SubSeq(KeyRegion(bytes), from + 1, from + n)

\* ------------------------------------------------------- pool, pure steps
\* Pool.seek: the file offset of key byte `position`.
seekMissingHeader(position) == position
seekKeyStart(position) == positionTypeLength
seek(position) == position + positionTypeLength

\* GetBytes line 96: the cursor after a take of count bytes.
newPositionNoAdvance(position, count) == position
newPosition(position, count) == position + count

\* io.ReadFull(p.fd, buffer) with len(buffer) = count, the descriptor at off:
\* the bytes read, the descriptor afterwards, and whether count bytes came.
ReadFull(bytes, off, count) ==
    LET data == ReadAt(bytes, off, count)
    IN  [data |-> data, off |-> off + Len(data), ok |-> Len(data) = count]

\* Pool.SetPositionToFile: Seek(0, SeekStart), then Write of the 8 bytes.
SetPositionToFileKeep(bytes, position) ==
    [bytes |-> bytes, off |-> positionTypeLength]
SetPositionToFile(bytes, position) ==
    [bytes |-> WriteAt(bytes, 0, LittleEndian(position, positionTypeLength)),
     off   |-> positionTypeLength]

\* Pool.GetPositionFromFile(seek): Seek(0, SeekStart), Read of 8 bytes, the
\* decoding, the sign check and, when asked for, the move of the descriptor.
GetPositionFromFileStart(bytes, doSeek) ==
    [ok |-> Len(bytes) >= positionTypeLength, position |-> 0,
     off |-> positionTypeLength]
GetPositionFromFile(bytes, doSeek) ==
    LET buffer == ReadAt(bytes, 0, positionTypeLength)
        n == Len(buffer)
        position == ReadInt64(buffer)
    IN  IF n # positionTypeLength
        THEN [ok |-> FALSE, position |-> -1, off |-> n]
        ELSE IF position < 0
        THEN [ok |-> FALSE, position |-> position, off |-> n]
        ELSE [ok |-> TRUE, position |-> position,
              off |-> IF doSeek THEN seek(position) ELSE n]

\* GetBytesAsChunks lines 122-124: the split of the buffer.
ChunksOf(buffer, chunkCount, chunkLength) ==
    [i \in 1..chunkCount |->
        SubSeq(buffer, (i - 1) * chunkLength + 1, i * chunkLength)]

\* PoolCreate lines 60-75: the copy loop, one buffer of bufferLength bytes at
\* a time, writing at the descriptor of the pool; stops at the first short
\* read of the source.
RECURSIVE CopyLoop(_, _, _, _)
CopyLoop(bytes, off, source, srcOff) ==
    LET buffer == ReadAt(source, srcOff, bufferLength)
        count == Len(buffer)
        written == IF count > 0 THEN WriteAt(bytes, off, buffer) ELSE bytes
    IN  IF count < bufferLength
        THEN [bytes |-> written, off |-> off + count]
        ELSE CopyLoop(written, off + count, source, srcOff + count)

\* ------------------------------------------------------------------ cipher
\* The exclusive or of two bytes (Go's v ^ b2[i] on uint8).
XorAsSum(a, b) == (a + b) % 256
Xor(a, b) ==
    LET bit(k) == (((a \div k) + (b \div k)) % 2) * k
    IN  bit(1) + bit(2) + bit(4) + bit(8) + bit(16) + bit(32) + bit(64)
            + bit(128)

\* cypher(b1, b2): the byte-wise exclusive or; panics on different lengths.
cypherFirstOnly(b1, b2) ==
    [ok |-> Len(b1) = Len(b2), bytes |-> b1]
cypher(b1, b2) ==
    IF Len(b1) # Len(b2)
    THEN [ok |-> FALSE, bytes |-> <<>>]
    ELSE [ok |-> TRUE, bytes |-> [i \in 1..Len(b1) |-> Xor(b1[i], b2[i])]]

\* boundaryAsString: hex.EncodeToString, two lowercase digits a byte.
HexDigits == <<"0", "1", "2", "3", "4", "5", "6", "7",
               "8", "9", "a", "b", "c", "d", "e", "f">>
boundaryAsUpperString(inBytes) ==
    [i \in 1..(2 * Len(inBytes)) |->
        LET b == inBytes[(i + 1) \div 2]
            upper == <<"0", "1", "2", "3", "4", "5", "6", "7",
                       "8", "9", "A", "B", "C", "D", "E", "F">>
        IN  IF i % 2 = 1 THEN upper[(b \div 16) + 1] ELSE upper[(b % 16) + 1]]
boundaryAsString(inBytes) ==
    [i \in 1..(2 * Len(inBytes)) |->
        LET b == inBytes[(i + 1) \div 2]
        IN  IF i % 2 = 1 THEN HexDigits[(b \div 16) + 1]
            ELSE HexDigits[(b % 16) + 1]]

\* ----------------------------------------------------------------- framing
\* math.MaxUint16, the largest length the 2-byte prefix holds.
MaxUint16 == 65535

\* Message.Load lines 53-56: the check of the length of the message.
TooLongFrom16Bits(rawLength) == rawLength >= MaxUint16
TooLong(rawLength) == rawLength > MaxUint16

\* Message.Load(filePath, chunkSize) on a file holding raw: the 2-byte
\* little-endian length, the payload, cut in chunks of chunkSize bytes, the
\* last one padded with zeros.
MessageLoad(raw, chunkSize) ==
    LET rawLength == Len(raw)
        message == LittleEndian(rawLength % (MaxUint16 + 1), 2) \o raw
        messageLength == Len(message)
        full == messageLength \div chunkSize
        remainder == messageLength % chunkSize
        whole == [i \in 1..full |->
                     SubSeq(message, (i - 1) * chunkSize + 1, i * chunkSize)]
    IN  IF TooLong(rawLength)
        THEN [ok |-> FALSE, chunks |-> <<>>]
        ELSE [ok |-> TRUE,
              chunks |->
                  IF remainder > 0
                  THEN Append(whole,
                              SubSeq(message, chunkSize * full + 1, messageLength)
                                  \o Zeros(chunkSize - remainder))
                  ELSE whole]

\* ---------------------------------------------------------------- sessions
\* A string is the sequence of its characters.  The zero value of the Session
\* struct.
ZeroSession == [PoolPointerPosition |-> 0, PoolName |-> <<>>, EmailIndex |-> 0,
                Boundaries |-> <<>>]

\* Session.Init.
SessionInit(poolName, poolPointerPosition) ==
    [PoolPointerPosition |-> poolPointerPosition, PoolName |-> poolName,
     EmailIndex |-> 0, Boundaries |-> <<>>]

\* Session.AddBoundary.
AddBoundary(s, boundary) ==
    [s EXCEPT !.Boundaries = Append(s.Boundaries, boundary)]

\* Session.MarshalJSON: one object, its members in the order of the format
\* string of line 34.  The numbers are written with %d, the boundaries as
\* arrays of %d, and the pool name with %s between two quotes: the member
\* pool-name holds the characters of the name as they are.
MarshalStructOrder(s) ==
    << <<"pool-position", s.PoolPointerPosition>>,
       <<"pool-name", s.PoolName>>,
       <<"email-index", s.EmailIndex>>,
       <<"boundaries", s.Boundaries>> >>
MarshalJSON(s) ==
    << <<"email-index", s.EmailIndex>>,
       <<"pool-name", s.PoolName>>,
       <<"pool-position", s.PoolPointerPosition>>,
       <<"boundaries", s.Boundaries>> >>

\* The characters between the quotes of a JSON string, read as encoding/json
\* reads them: a quote ends the string, and what follows it in the text is no
\* part of an object; a backslash starts an escape; the text must not end
\* inside an escape, where the backslash would take the closing quote.
RECURSIVE Unquote(_)
Unquote(text) ==
    LET bad == [ok |-> FALSE, value |-> <<>>]
        then(c, rest) == LET r == Unquote(rest)
                         IN  [ok |-> r.ok, value |-> <<c>> \o r.value]
        n == Len(text)
    IN  IF n = 0 THEN [ok |-> TRUE, value |-> <<>>]
        ELSE IF text[1] = "\"" THEN bad
        ELSE IF text[1] # "\\" THEN then(text[1], SubSeq(text, 2, n))
        ELSE IF n = 1 THEN bad
        ELSE IF text[2] \in {"\"", "\\"} THEN then(text[2], SubSeq(text, 3, n))
        ELSE IF text[2] = "n" THEN then("\n", SubSeq(text, 3, n))
        ELSE IF text[2] = "u" /\ n >= 6
                  /\ SubSeq(text, 3, 6) = <<"0", "0", "3", "c">>
        THEN then("<", SubSeq(text, 7, n))
        ELSE bad

\* json.Marshal on the text of MarshalJSON: the text is compacted with the
\* characters of HTML escaped, < becoming <.
RECURSIVE EscapeHTML(_)
EscapeHTML(text) ==
    IF text = <<>> THEN <<>>
    ELSE (IF Head(text) = "<" THEN <<"\\", "u", "0", "0", "3", "c">>
          ELSE <<Head(text)>>) \o EscapeHTML(Tail(text))

\* json.Marshal(s), which calls s.MarshalJSON: an error when the text it
\* returns is not valid JSON, else the text compacted.
Marshal(s) ==
    LET m == MarshalJSON(s)
    IN  [ok |-> \A i \in 1..Len(m) :
                    m[i][1] = "pool-name" => Unquote(m[i][2]).ok,
         json |-> [i \in 1..Len(m) |->
                      IF m[i][1] = "pool-name"
                      THEN <<m[i][1], EscapeHTML(m[i][2])>> ELSE m[i]]]

\* json.Unmarshal(jsonBytes, s): a member of the object sets the field of its
\* tag; a field without a member keeps the value it has in s.
Member(json, key, default) ==
    IF \E i \in 1..Len(json) : json[i][1] = key
    THEN json[CHOOSE i \in 1..Len(json) :
                  /\ json[i][1] = key
                  /\ \A j \in (i + 1)..Len(json) : json[j][1] # key][2]
    ELSE default
HasMember(json, key) == \E i \in 1..Len(json) : json[i][1] = key
UnmarshalOlder(json, s) ==
    [PoolPointerPosition |-> s.PoolPointerPosition,
     PoolName |-> s.PoolName,
     EmailIndex |-> Member(json, "email-index", s.EmailIndex),
     Boundaries |-> Member(json, "boundaries", s.Boundaries)]
Unmarshal(json, s) ==
    [PoolPointerPosition |-> Member(json, "pool-position", s.PoolPointerPosition),
     PoolName |-> IF HasMember(json, "pool-name")
                  THEN Unquote(Member(json, "pool-name", <<>>)).value
                  ELSE s.PoolName,
     EmailIndex |-> Member(json, "email-index", s.EmailIndex),
     Boundaries |-> Member(json, "boundaries", s.Boundaries)]

NoSessionFile == [exists |-> FALSE, json |-> <<>>]

\* Session.Load(path) into s: os.ReadFile, then json.Unmarshal.
\* A file without a byte is no JSON value: json.Unmarshal returns an error.
SessionLoad(file, s) ==
    IF ~file.exists \/ file.json = <<>> THEN [ok |-> FALSE, session |-> s]
    ELSE IF HasMember(file.json, "pool-name")
            /\ ~Unquote(Member(file.json, "pool-name", <<>>)).ok
    THEN [ok |-> FALSE, session |-> s]
    ELSE [ok |-> TRUE, session |-> Unmarshal(file.json, s)]

\* Session.Save(path) on the file at path: json.Marshal, whose error leaves
\* the file as it is, then os.WriteFile.
SessionSave(file, s) ==
    LET m == Marshal(s)
    IN  IF m.ok THEN [ok |-> TRUE, file |-> [exists |-> TRUE, json |-> m.json]]
        ELSE [ok |-> FALSE, file |-> file]

\* Session.Save(path) whose os.WriteFile fails: at the opening of the file,
\* which stays as it was, or at the write, after the file was truncated.
SaveFailures == {"open", "write"}
WriteFileFailed(file, failure) ==
    IF failure = "open" THEN file ELSE [exists |-> TRUE, json |-> <<>>]

\* The names of the sessions, and the name of the key (defaultKeyName).
SessionNames == {"first-session", "second-session"}
KeyName == <<"k", "e", "y">>

\* ------------------------------------------------------------------- state
VARIABLES
    poolFile,   \* the pool file: [exists, bytes]
    pool,       \* the Pool held by the running process: [open, off, Position]
    call,       \* the GetBytes call in progress and its local variables
    ret,        \* what the last operation returned to its caller
    taken,      \* history: the key offsets returned by successful takes
    consumed,   \* history: the sum of the counts of the successful takes
    reused,     \* history: a successful take returned an offset of `taken`
    handle,     \* history of the open Pool: [takes, failed]
    crashes,    \* history: the steps of GetBytes the process stopped at
    directCalls, \* history: a caller's own calls of Get/SetPosition...File
    sessions,   \* the session files, by session name: [exists, json]
    otherTaken  \* history: the key offsets returned to another process

vars == <<poolFile, pool, call, ret, taken, consumed, reused, handle, crashes,
          directCalls, sessions, otherTaken>>

\* The source file of the test suite: data[i] = byte(i).
TestSource(n) == [i \in 1..n |-> (i - 1) % 256]

NoFile == [exists |-> FALSE, bytes |-> <<>>]
NoPool == [open |-> FALSE, off |-> 0, Position |-> 0]
NoCall == [pc |-> "idle", op |-> "none", count |-> 0, chunkCount |-> 0,
           chunkLength |-> 0, buffer |-> <<>>, newPosition |-> 0,
           Position0 |-> 0, cursor0 |-> 0, from |-> 0, afterFailure |-> FALSE,
           firstTake |-> FALSE]
\* No take returned yet on this Pool; the last one did not fail.
NewHandle == [takes |-> 0, failed |-> FALSE]
NoRet == [op |-> "none", ok |-> FALSE, err |-> "none", buffer |-> <<>>,
          chunks |-> <<>>, position |-> 0, count |-> 0, chunkCount |-> 0,
          chunkLength |-> 0, Position0 |-> 0, cursor0 |-> 0, from |-> 0,
          off0 |-> 0, consumed0 |-> 0, afterFailure |-> FALSE,
          firstTake |-> FALSE, seek |-> FALSE, name |-> "", payload |-> <<>>,
          mail |-> <<>>, session |-> ZeroSession, json |-> <<>>,
          loaded |-> ZeroSession, selection |-> "none"]

Idle == call.pc = "idle"

Init ==
    /\ poolFile = NoFile
    /\ pool = NoPool
    /\ call = NoCall
    /\ ret = NoRet
    /\ taken = {}
    /\ consumed = 0
    /\ reused = FALSE
    /\ handle = NewHandle
    /\ crashes = {}
    /\ directCalls = 0
    /\ sessions = [name \in SessionNames |-> NoSessionFile]
    /\ otherTaken = {}

History == <<taken, consumed, reused, directCalls, otherTaken>>

\* ------------------------------------------------------------- PoolCreate
\* PoolCreate(poolPath, filePath): os.OpenFile(poolPath, os.O_CREATE) opens
\* the file where it is and creates it empty where it is not; the header and
\* the source are then written from offset 0.
PoolCreateBytes(old, source) ==
    LET header == WriteAt(old, 0, Zeros(positionTypeLength))
    IN  CopyLoop(header, positionTypeLength, source, 0).bytes

PoolCreate(source) ==
    /\ ~pool.open
    /\ Idle
    /\ poolFile' = [exists |-> TRUE,
                    bytes |-> PoolCreateBytes(poolFile.bytes, source)]
    /\ pool' = [open |-> TRUE, off |-> seek(0), Position |-> 0]
    /\ ret' = [NoRet EXCEPT !.op = "PoolCreate", !.ok = TRUE,
                             !.payload = source]
    /\ taken' = {}
    /\ consumed' = 0
    /\ reused' = FALSE
    /\ handle' = NewHandle
    /\ directCalls' = 0
    /\ otherTaken' = {}
    /\ UNCHANGED <<call, crashes, sessions>>

\* The first creation of the pool, from the source of the test suite.
PoolCreateFresh ==
    /\ ~poolFile.exists
    /\ PoolCreate(TestSource(PoolLen))

\* --------------------------------------------------------------- PoolOpen
PoolOpen ==
    /\ ~pool.open
    /\ Idle
    /\ IF ~poolFile.exists
       THEN /\ pool' = NoPool
            /\ ret' = [NoRet EXCEPT !.op = "PoolOpen", !.err = "open"]
       ELSE LET r == GetPositionFromFile(poolFile.bytes, TRUE)
            IN  IF r.ok
                THEN /\ pool' = [open |-> TRUE, off |-> r.off,
                                 Position |-> r.position]
                     /\ ret' = [NoRet EXCEPT !.op = "PoolOpen", !.ok = TRUE,
                                             !.position = r.position]
                ELSE /\ pool' = NoPool
                     /\ ret' = [NoRet EXCEPT !.op = "PoolOpen",
                                             !.err = "position"]
    /\ handle' = NewHandle
    /\ UNCHANGED <<poolFile, call, History, crashes, sessions>>

\* Pool.Close.
Close ==
    /\ pool.open
    /\ Idle
    /\ pool' = NoPool
    /\ ret' = [NoRet EXCEPT !.op = "Close", !.ok = TRUE]
    /\ handle' = NewHandle
    /\ UNCHANGED <<poolFile, call, History, crashes, sessions>>

\* The process stops, at any point of an operation: the Pool and the locals
\* of the call in progress are lost, the file stays as it is.
Crash ==
    /\ pool.open
    /\ pool' = NoPool
    /\ call' = NoCall
    /\ ret' = [NoRet EXCEPT !.op = "Crash"]
    /\ handle' = NewHandle
    /\ crashes' = crashes \cup {call.pc}
    /\ UNCHANGED <<poolFile, History, sessions>>

\* --------------------------------------------------------------- GetBytes
\* Lines 95-103: the locals, the check of count and the read.  A short read
\* returns the error; the descriptor stays where the read left it.
GetBytesRead(op, chunkCount, chunkLength, count) ==
    /\ pool.open
    /\ Idle
    /\ count > 0
    /\ LET r == ReadFull(poolFile.bytes, pool.off, count)
           c == [NoCall EXCEPT !.op = op, !.count = count,
                     !.chunkCount = chunkCount, !.chunkLength = chunkLength,
                     !.newPosition = newPosition(pool.Position, count),
                     !.Position0 = pool.Position,
                     !.cursor0 = Cursor(poolFile.bytes),
                     !.from = pool.off - positionTypeLength,
                     !.afterFailure = handle.failed,
                     !.firstTake = (handle.takes = 0)]
       IN  /\ pool' = [pool EXCEPT !.off = r.off]
           /\ IF r.ok
              THEN /\ call' = [c EXCEPT !.pc = "persist", !.buffer = r.data]
                   /\ ret' = NoRet
                   /\ handle' = handle
              ELSE /\ call' = NoCall
                   /\ handle' = [handle EXCEPT !.failed = TRUE]
                   /\ ret' = [NoRet EXCEPT !.op = op, !.err = "read",
                                  !.count = count,
                                  !.chunkCount = chunkCount,
                                  !.chunkLength = chunkLength,
                                  !.Position0 = c.Position0,
                                  !.cursor0 = c.cursor0,
                                  !.from = c.from,
                                  !.off0 = pool.off,
                                  !.consumed0 = consumed,
                                  !.afterFailure = c.afterFailure,
                                  !.firstTake = c.firstTake]
    /\ UNCHANGED <<poolFile, History, crashes, sessions>>

\* Line 98: a count of zero or less panics, which ends the process.
GetBytesPanic ==
    /\ pool.open
    /\ Idle
    /\ pool' = NoPool
    /\ ret' = [NoRet EXCEPT !.op = "GetBytes", !.err = "panic"]
    /\ handle' = NewHandle
    /\ UNCHANGED <<poolFile, call, History, crashes, sessions>>

\* Line 104: the new cursor is written to the header.
GetBytesPersist ==
    /\ call.pc = "persist"
    /\ LET w == SetPositionToFile(poolFile.bytes, call.newPosition)
       IN  /\ poolFile' = [poolFile EXCEPT !.bytes = w.bytes]
           /\ pool' = [pool EXCEPT !.off = w.off]
    /\ call' = [call EXCEPT !.pc = "seek"]
    /\ UNCHANGED <<ret, History, handle, crashes, sessions>>

\* Line 107: the descriptor is moved to the new cursor.
GetBytesSeek ==
    /\ call.pc = "seek"
    /\ pool' = [pool EXCEPT !.off = seek(call.newPosition)]
    /\ call' = [call EXCEPT !.pc = "advance"]
    /\ UNCHANGED <<poolFile, ret, History, handle, crashes, sessions>>

\* Lines 110-111, and lines 122-125 of GetBytesAsChunks: the in-memory cursor
\* advances and the bytes go to the caller.
GetBytesReturn ==
    /\ call.pc = "advance"
    /\ pool' = [pool EXCEPT !.Position = call.newPosition]
    /\ ret' = [NoRet EXCEPT !.op = call.op, !.ok = TRUE,
                   !.buffer = call.buffer,
                   !.chunks = IF call.op = "GetBytesAsChunks"
                              THEN ChunksOf(call.buffer, call.chunkCount,
                                            call.chunkLength)
                              ELSE <<>>,
                   !.count = call.count,
                   !.chunkCount = call.chunkCount,
                   !.chunkLength = call.chunkLength,
                   !.Position0 = call.Position0,
                   !.cursor0 = call.cursor0,
                   !.from = call.from,
                   !.off0 = call.from + positionTypeLength,
                   !.consumed0 = consumed,
                   !.afterFailure = call.afterFailure,
                   !.firstTake = call.firstTake]
    /\ LET range == call.from .. (call.from + call.count - 1)
       IN  /\ taken' = taken \cup range
           /\ reused' = (reused \/ (range \cap taken # {}))
    /\ consumed' = consumed + call.count
    /\ call' = NoCall
    /\ handle' = [takes |-> handle.takes + 1, failed |-> FALSE]
    /\ UNCHANGED <<poolFile, crashes, directCalls, sessions, otherTaken>>

\* Lines 104-106 when the write of the header fails: SetPositionToFile has
\* moved the descriptor to offset 0 and written nothing; GetBytes returns the
\* error and no bytes.
GetBytesPersistFail ==
    /\ call.pc = "persist"
    /\ pool' = [pool EXCEPT !.off = 0]
    /\ ret' = [NoRet EXCEPT !.op = call.op, !.err = "persist",
                   !.count = call.count,
                   !.chunkCount = call.chunkCount,
                   !.chunkLength = call.chunkLength,
                   !.Position0 = call.Position0,
                   !.cursor0 = call.cursor0,
                   !.from = call.from,
                   !.off0 = call.from + positionTypeLength,
                   !.consumed0 = consumed,
                   !.afterFailure = call.afterFailure,
                   !.firstTake = call.firstTake]
    /\ call' = NoCall
    /\ UNCHANGED <<poolFile, History, handle, crashes, sessions>>

\* Lines 107-109 when the move of the descriptor fails: the header holds the
\* new cursor, the descriptor stays behind the header; GetBytes returns the
\* error and no bytes.
GetBytesSeekFail ==
    /\ call.pc = "seek"
    /\ ret' = [NoRet EXCEPT !.op = call.op, !.err = "seek",
                   !.count = call.count,
                   !.chunkCount = call.chunkCount,
                   !.chunkLength = call.chunkLength,
                   !.Position0 = call.Position0,
                   !.cursor0 = call.cursor0,
                   !.from = call.from,
                   !.off0 = call.from + positionTypeLength,
                   !.consumed0 = consumed,
                   !.afterFailure = call.afterFailure,
                   !.firstTake = call.firstTake]
    /\ call' = NoCall
    /\ UNCHANGED <<poolFile, pool, History, handle, crashes, sessions>>

\* Pool.GetBytes(count), up to the read.
GetBytes ==
    /\ pool.open
    /\ \E count \in 1..MaxTake : GetBytesRead("GetBytes", 0, 0, count)

\* Pool.GetBytesAsChunks(chunkCount, chunkLength), up to the read of GetBytes.
GetBytesAsChunks ==
    /\ pool.open
    /\ \E chunkCount \in 1..MaxChunkCount, chunkLength \in 1..MaxChunkLength :
            GetBytesRead("GetBytesAsChunks", chunkCount, chunkLength,
                         chunkCount * chunkLength)

\* ------------------------------------------ the pool, one process, no fault
NextPool ==
    \/ PoolCreateFresh
    \/ PoolOpen
    \/ Close
    \/ GetBytes
    \/ GetBytesAsChunks
    \/ GetBytesPanic
    \/ GetBytesPersist
    \/ GetBytesSeek
    \/ GetBytesReturn

SpecPool == Init /\ [][NextPool]_vars

\* ------------------------- the same, and the process may stop at any point
NextCrash ==
    \/ NextPool
    \/ Crash

SpecCrash == Init /\ [][NextCrash]_vars

\* ------------------------------- the same, and the writes and seeks may fail
NextFault ==
    \/ PoolCreateFresh
    \/ PoolOpen
    \/ Close
    \/ GetBytes
    \/ GetBytesPersist
    \/ GetBytesPersistFail
    \/ GetBytesSeek
    \/ GetBytesSeekFail
    \/ GetBytesReturn

SpecFault == Init /\ [][NextFault]_vars

\* --------------------------------- the pool, every operation of its interface
\* The largest number of calls of GetPositionFromFile and SetPositionToFile
\* that callers of the pool make themselves between two creations.
MaxDirectCalls == 2

\* The positions a caller of SetPositionToFile passes (processPoolReset takes
\* any int64 of the command line).
Positions == {-1, 0, 1, KeyLength(poolFile.bytes), KeyLength(poolFile.bytes) + 1}

\* A caller's Pool.GetPositionFromFile(seek) on the open pool.
CallGetPositionFromFile ==
    /\ pool.open
    /\ Idle
    /\ directCalls < MaxDirectCalls
    /\ \E doSeek \in BOOLEAN :
          LET r == GetPositionFromFile(poolFile.bytes, doSeek)
          IN  /\ pool' = [pool EXCEPT !.off = r.off]
              /\ ret' = [NoRet EXCEPT !.op = "GetPositionFromFile",
                             !.ok = r.ok,
                             !.position = r.position,
                             !.seek = doSeek,
                             !.Position0 = pool.Position,
                             !.cursor0 = Cursor(poolFile.bytes),
                             !.off0 = pool.off]
    /\ directCalls' = directCalls + 1
    /\ UNCHANGED <<poolFile, call, taken, consumed, reused, handle, crashes,
                   sessions, otherTaken>>

\* A caller's Pool.SetPositionToFile(position) on the open pool.
CallSetPositionToFile ==
    /\ pool.open
    /\ Idle
    /\ directCalls < MaxDirectCalls
    /\ \E position \in Positions :
          LET w == SetPositionToFile(poolFile.bytes, position)
          IN  /\ poolFile' = [poolFile EXCEPT !.bytes = w.bytes]
              /\ pool' = [pool EXCEPT !.off = w.off]
              /\ ret' = [NoRet EXCEPT !.op = "SetPositionToFile",
                             !.ok = TRUE,
                             !.position = position,
                             !.Position0 = pool.Position,
                             !.cursor0 = Cursor(poolFile.bytes),
                             !.off0 = pool.off]
    /\ directCalls' = directCalls + 1
    /\ UNCHANGED <<call, taken, consumed, reused, handle, crashes, sessions,
                   otherTaken>>

\* PoolCreate on a pool that exists already.
PoolCreateAgain ==
    /\ poolFile.exists
    /\ PoolCreate(TestSource(PoolLen))

\* The pool with the inspection of its cursor.
NextInspect ==
    \/ NextPool
    \/ CallGetPositionFromFile

SpecInspect == Init /\ [][NextInspect]_vars

Next ==
    \/ NextPool
    \/ CallGetPositionFromFile
    \/ CallSetPositionToFile
    \/ PoolCreateAgain

Spec == Init /\ [][Next]_vars

\* ------------------------------------------- two processes on one pool
\* Another process on the same pool file, between two steps of this one: its
\* PoolOpen (the header is read), its GetBytes(count) (the key bytes are read,
\* the header is written) and its Close.  Nothing serializes the two
\* processes: the file is opened without a lock.  A PoolOpen or a GetBytes of
\* the other process that fails leaves the file as it is.
OtherProcessTake ==
    /\ poolFile.exists
    /\ \E count \in 1..MaxTake :
          LET o == GetPositionFromFile(poolFile.bytes, TRUE)
              r == ReadFull(poolFile.bytes, o.off, count)
              w == SetPositionToFile(poolFile.bytes,
                                     newPosition(o.position, count))
              from == o.off - positionTypeLength
          IN  /\ o.ok
              /\ r.ok
              /\ poolFile' = [poolFile EXCEPT !.bytes = w.bytes]
              /\ otherTaken' = otherTaken \cup (from .. (from + count - 1))
    /\ UNCHANGED <<pool, call, ret, taken, consumed, reused, handle, crashes,
                   directCalls, sessions>>

NextRace ==
    \/ NextPool
    \/ OtherProcessTake

SpecRace == Init /\ [][NextRace]_vars

\* ------------------------------------------------- the commands of main.go
\* The number of chunks of boundaryLength bytes of the key of the commands.
KeyChunks == 3

\* The file the key of the commands is created from.
KeySource == TestSource(KeyChunks * boundaryLength)

\* The messages to hide: the empty one, one that fills one chunk exactly with
\* its length prefix, and one that needs one byte of a second chunk.
Payload(n) == [i \in 1..n |-> (64 + i) % 256]
Payloads == {Payload(n) : n \in {0, boundaryLength - 2, boundaryLength - 1}}

\* Every command is a process of its own: it runs while no other holds the pool.
NoProcess == ~pool.open /\ Idle

\* processCreateSession lines 186-190: the boundaries, message XOR key, each
\* appended to the session by AddBoundary, from chunk i on.
AddBoundaries(s, message, key, i) ==
    IF i > Len(message) THEN s
    ELSE [s EXCEPT !.Boundaries =
             @ \o [j \in 1..(Len(message) - i + 1) |->
                      cypher(message[i + j - 1], key[i + j - 1]).bytes]]

\* processCreateSession lines 163-193 on the pool file bytes and the message
\* raw: the error or, with the bytes of the pool file afterwards, the session
\* that is saved.
CreateSession(exists, bytes, raw) ==
    LET o == GetPositionFromFile(bytes, TRUE)
        m == MessageLoad(raw, boundaryLength)
        chunkCount == Len(m.chunks)
        count == chunkCount * boundaryLength
        r == ReadFull(bytes, o.off, count)
        w == SetPositionToFile(bytes, newPosition(o.position, count))
        key == ChunksOf(r.data, chunkCount, boundaryLength)
        none == [err |-> "none", bytes |-> bytes, session |-> ZeroSession,
                 from |-> 0, count |-> 0]
    IN  IF ~exists \/ ~o.ok THEN [none EXCEPT !.err = "open"]
        ELSE IF ~m.ok THEN [none EXCEPT !.err = "message"]
        ELSE IF ~r.ok THEN [none EXCEPT !.err = "key"]
        ELSE [err |-> "none",
              bytes |-> w.bytes,
              session |-> AddBoundaries(SessionInit(KeyName, o.position),
                                        m.chunks, key, 1),
              from |-> o.off - positionTypeLength,
              count |-> count]

\* create-key, of a key that does not exist yet.
processCreateKey ==
    /\ NoProcess
    /\ ~poolFile.exists
    /\ poolFile' = [exists |-> TRUE,
                    bytes |-> PoolCreateBytes(poolFile.bytes, KeySource)]
    /\ ret' = [NoRet EXCEPT !.op = "create-key", !.ok = TRUE]
    /\ taken' = {}
    /\ consumed' = 0
    /\ reused' = FALSE
    /\ otherTaken' = {}
    /\ UNCHANGED <<pool, call, handle, crashes, directCalls, sessions>>

\* create-session --key=key --message=<file> <name>.
processCreateSession ==
    /\ NoProcess
    /\ \E raw \in Payloads :
          LET c == CreateSession(poolFile.exists, poolFile.bytes, raw)
              range == c.from .. (c.from + c.count - 1)
              saved == SessionSave(NoSessionFile, c.session)
          IN  \E name \in SessionNames :
                LET result == [NoRet EXCEPT !.op = "create-session",
                                   !.name = name, !.payload = raw,
                                   !.cursor0 = Cursor(poolFile.bytes),
                                   !.from = c.from, !.count = c.count]
                IN  IF c.err # "none"
                    THEN /\ ret' = [result EXCEPT !.err = c.err]
                         /\ UNCHANGED <<poolFile, sessions, taken, consumed,
                                        reused>>
                    ELSE /\ ret' = [result EXCEPT !.ok = saved.ok,
                                       !.err = IF saved.ok THEN "none"
                                               ELSE "save"]
                         /\ poolFile' = [poolFile EXCEPT !.bytes = c.bytes]
                         /\ sessions' = [sessions EXCEPT ![name] =
                                IF saved.ok THEN saved.file ELSE @]
                         /\ taken' = taken \cup range
                         /\ reused' = (reused \/ (range \cap taken # {}))
                         /\ consumed' = consumed + c.count
    /\ UNCHANGED <<pool, call, handle, crashes, directCalls, otherTaken>>

\* processSend lines 320-322: the session has been processed already.
Processed(session) == session.EmailIndex >= Len(session.Boundaries)

\* processSend line 377: session.EmailIndex += 1.
NextEmailSkips(session) ==
    [session EXCEPT !.EmailIndex = session.EmailIndex + 2]
NextEmail(session) ==
    [session EXCEPT !.EmailIndex = session.EmailIndex + 1]

\* Session.Reset line 51, after its load: s.EmailIndex = 0.
RewindBelowZero(s) == [s EXCEPT !.EmailIndex = -1]
RewindAll(s) == [s EXCEPT !.EmailIndex = 0, !.Boundaries = <<>>]
Rewind(s) == [s EXCEPT !.EmailIndex = 0]

\* send <name> <from> <to> <subject>: one email, its MIME boundary the next
\* boundary of the session; the mail server may refuse it.
processSendReturnsKey ==
    /\ NoProcess
    /\ poolFile.exists
    /\ Cursor(poolFile.bytes) >= boundaryLength
    /\ \E name \in SessionNames :
          LET l == SessionLoad(sessions[name], ZeroSession)
          IN  /\ l.ok
              /\ ~Processed(l.session)
              /\ ret' = [NoRet EXCEPT !.op = "send", !.name = name,
                             !.err = "smtp"]
    /\ poolFile' = [poolFile EXCEPT !.bytes =
           SetPositionToFile(poolFile.bytes,
                             Cursor(poolFile.bytes) - boundaryLength).bytes]
    /\ UNCHANGED <<pool, call, History, handle, crashes, sessions>>
processSend ==
    /\ NoProcess
    /\ \E name \in SessionNames, delivered \in BOOLEAN :
          LET l == SessionLoad(sessions[name], ZeroSession)
              session == l.session
              result == [NoRet EXCEPT !.op = "send", !.name = name]
          IN  IF ~l.ok
              THEN /\ ret' = [result EXCEPT !.err = "load"]
                   /\ UNCHANGED sessions
              ELSE IF Processed(session)
              THEN /\ ret' = [result EXCEPT !.err = "processed"]
                   /\ UNCHANGED sessions
              ELSE IF ~delivered
              THEN /\ ret' = [result EXCEPT !.err = "smtp"]
                   /\ UNCHANGED sessions
              ELSE LET saved == SessionSave(sessions[name], NextEmail(session))
                   IN  /\ ret' = [result EXCEPT !.ok = saved.ok,
                                      !.err = IF saved.ok THEN "none" ELSE "save",
                                      !.position = NextEmail(session).EmailIndex,
                                      !.mail = boundaryAsString(
                                          session.Boundaries[session.EmailIndex + 1])]
                       /\ sessions' = [sessions EXCEPT ![name] = saved.file]
    /\ UNCHANGED <<poolFile, pool, call, History, handle, crashes>>

\* reset-session <name>: the load of procesSessionReset, then Session.Reset.
procesSessionReset ==
    /\ NoProcess
    /\ \E name \in SessionNames :
          LET l == SessionLoad(sessions[name], ZeroSession)
              again == SessionLoad(sessions[name], l.session)
              result == [NoRet EXCEPT !.op = "reset-session", !.name = name]
          IN  IF ~l.ok \/ ~again.ok
              THEN /\ ret' = [result EXCEPT !.err = "load"]
                   /\ UNCHANGED sessions
              ELSE LET saved == SessionSave(sessions[name],
                                            Rewind(again.session))
                   IN  /\ ret' = [result EXCEPT !.ok = saved.ok,
                                      !.err = IF saved.ok THEN "none" ELSE "save"]
                       /\ sessions' = [sessions EXCEPT ![name] = saved.file]
    /\ UNCHANGED <<poolFile, pool, call, History, handle, crashes>>

\* info-session <name>: prints the session and the number of emails to send.
processSessionInfo ==
    /\ NoProcess
    /\ \E name \in SessionNames :
          LET l == SessionLoad(sessions[name], ZeroSession)
              result == [NoRet EXCEPT !.op = "info-session", !.name = name]
          IN  IF ~l.ok
              THEN ret' = [result EXCEPT !.err = "load"]
              ELSE ret' = [result EXCEPT !.ok = TRUE,
                              !.position = l.session.EmailIndex,
                              !.count = Len(l.session.Boundaries)
                                            - l.session.EmailIndex]
    /\ UNCHANGED <<poolFile, pool, call, History, handle, crashes, sessions>>

\* info-key <name>: opens the pool and prints its position.
processPoolInfo ==
    /\ NoProcess
    /\ LET o == GetPositionFromFile(poolFile.bytes, TRUE)
       IN  IF ~poolFile.exists \/ ~o.ok
           THEN ret' = [NoRet EXCEPT !.op = "info-key", !.err = "open"]
           ELSE ret' = [NoRet EXCEPT !.op = "info-key", !.ok = TRUE,
                            !.position = o.position]
    /\ UNCHANGED <<poolFile, pool, call, History, handle, crashes, sessions>>

NextCli ==
    \/ processCreateKey
    \/ processCreateSession
    \/ processSend
    \/ procesSessionReset
    \/ processSessionInfo
    \/ processPoolInfo

SpecCli == Init /\ [][NextCli]_vars

\* ------------------------------------- the commands, with failing saves
\* create-session whose Session.Save fails (lines 191-193): the key bytes were
\* drawn and the cursor was written before.
processCreateSessionSaveFail ==
    /\ NoProcess
    /\ \E raw \in Payloads :
          LET m == MessageLoad(raw, boundaryLength)
              count == Len(m.chunks) * boundaryLength
              o == GetPositionFromFile(poolFile.bytes, TRUE)
              r == ReadFull(poolFile.bytes, o.off, count)
              w == SetPositionToFile(poolFile.bytes,
                                     newPosition(o.position, count))
              from == o.off - positionTypeLength
              range == from .. (from + count - 1)
          IN  /\ poolFile.exists /\ o.ok /\ m.ok /\ r.ok
              /\ \E name \in SessionNames, failure \in SaveFailures :
                    /\ ret' = [NoRet EXCEPT !.op = "create-session",
                                   !.name = name, !.payload = raw,
                                   !.cursor0 = Cursor(poolFile.bytes),
                                   !.from = from, !.count = count,
                                   !.err = "save"]
                    /\ sessions' = [sessions EXCEPT ![name] =
                           WriteFileFailed(sessions[name], failure)]
              /\ poolFile' = [poolFile EXCEPT !.bytes = w.bytes]
              /\ taken' = taken \cup range
              /\ reused' = (reused \/ (range \cap taken # {}))
              /\ consumed' = consumed + count
    /\ UNCHANGED <<pool, call, handle, crashes, directCalls, otherTaken>>

\* send whose Session.Save fails (lines 377-380): the email was delivered.
processSendSaveFail ==
    /\ NoProcess
    /\ \E name \in SessionNames, failure \in SaveFailures :
          LET l == SessionLoad(sessions[name], ZeroSession)
              session == l.session
          IN  /\ l.ok
              /\ ~Processed(session)
              /\ ret' = [NoRet EXCEPT !.op = "send", !.name = name,
                             !.err = "save",
                             !.position = NextEmail(session).EmailIndex,
                             !.mail = boundaryAsString(
                                 session.Boundaries[session.EmailIndex + 1])]
              /\ sessions' = [sessions EXCEPT
                                 ![name] = WriteFileFailed(sessions[name], failure)]
    /\ UNCHANGED <<poolFile, pool, call, History, handle, crashes>>

\* reset-session whose Session.Save fails (session.go line 52).
procesSessionResetSaveFail ==
    /\ NoProcess
    /\ \E name \in SessionNames, failure \in SaveFailures :
          LET l == SessionLoad(sessions[name], ZeroSession)
              again == SessionLoad(sessions[name], l.session)
          IN  /\ l.ok
              /\ again.ok
              /\ ret' = [NoRet EXCEPT !.op = "reset-session", !.name = name,
                             !.err = "save"]
              /\ sessions' = [sessions EXCEPT
                                 ![name] = WriteFileFailed(sessions[name], failure)]
    /\ UNCHANGED <<poolFile, pool, call, History, handle, crashes>>

NextCliFault ==
    \/ NextCli
    \/ processCreateSessionSaveFail
    \/ processSendSaveFail
    \/ procesSessionResetSaveFail

SpecCliFault == Init /\ [][NextCliFault]_vars

\* ------------------------------ the commands, with a failing end of SMTP
\* send whose smtpClient.Quit fails (lines 372-374) after writer.Close
\* returned without error (lines 369-371): the mail server accepted the
\* email, and processSend returns before line 377.
processSendQuitFail ==
    /\ NoProcess
    /\ \E name \in SessionNames :
          LET l == SessionLoad(sessions[name], ZeroSession)
              session == l.session
          IN  /\ l.ok
              /\ ~Processed(session)
              /\ ret' = [NoRet EXCEPT !.op = "send", !.name = name,
                             !.err = "quit",
                             !.position = session.EmailIndex,
                             !.mail = boundaryAsString(
                                 session.Boundaries[session.EmailIndex + 1])]
    /\ UNCHANGED <<poolFile, pool, call, History, handle, crashes, sessions>>

NextCliSmtp ==
    \/ NextCliFault
    \/ processSendQuitFail

SpecCliSmtp == Init /\ [][NextCliSmtp]_vars

\* ------------------------------- the commands, interrupted in their Save
\* os.WriteFile(path, jsonBytes, 0644) of Session.Save (session.go line 79)
\* in a process that is killed: before the file is opened it is as it was,
\* between the opening, which truncates it, and the write it is empty, and
\* after the write it holds the new record.
InterruptedWriteFile(file, json) ==
    {file, [exists |-> TRUE, json |-> <<>>], [exists |-> TRUE, json |-> json]}

\* send, killed in the Session.Save of line 378.
processSendInterrupted ==
    /\ NoProcess
    /\ \E name \in SessionNames :
          LET l == SessionLoad(sessions[name], ZeroSession)
              session == l.session
              m == Marshal(NextEmail(session))
          IN  /\ l.ok
              /\ ~Processed(session)
              /\ m.ok
              /\ \E file \in InterruptedWriteFile(sessions[name], m.json) :
                    sessions' = [sessions EXCEPT ![name] = file]
              /\ ret' = [NoRet EXCEPT !.op = "send", !.name = name,
                             !.err = "interrupted",
                             !.json = m.json,
                             !.position = NextEmail(session).EmailIndex,
                             !.mail = boundaryAsString(
                                 session.Boundaries[session.EmailIndex + 1])]
    /\ UNCHANGED <<poolFile, pool, call, History, handle, crashes>>

\* reset-session, killed in the Session.Save of Session.Reset (line 52).
procesSessionResetInterrupted ==
    /\ NoProcess
    /\ \E name \in SessionNames :
          LET l == SessionLoad(sessions[name], ZeroSession)
              again == SessionLoad(sessions[name], l.session)
              m == Marshal(Rewind(again.session))
          IN  /\ l.ok
              /\ again.ok
              /\ m.ok
              /\ \E file \in InterruptedWriteFile(sessions[name], m.json) :
                    sessions' = [sessions EXCEPT ![name] = file]
              /\ ret' = [NoRet EXCEPT !.op = "reset-session", !.name = name,
                             !.err = "interrupted",
                             !.json = m.json]
    /\ UNCHANGED <<poolFile, pool, call, History, handle, crashes>>

NextCliKill ==
    \/ NextCli
    \/ processSendInterrupted
    \/ procesSessionResetInterrupted

SpecCliKill == Init /\ [][NextCliKill]_vars

\* --------------------------------------- the commands, with reset-key
\* The position given to reset-key, the start of the key, and the number of
\* the runs of reset-key.
ResetPositions == {0}
MaxKeyResets == 1

\* reset-key <name> <position>: PoolOpen, then SetPositionToFile(position).
processPoolReset ==
    /\ NoProcess
    /\ directCalls < MaxKeyResets
    /\ directCalls' = directCalls + 1
    /\ \E position \in ResetPositions :
          LET o == GetPositionFromFile(poolFile.bytes, TRUE)
              w == SetPositionToFile(poolFile.bytes, position)
              result == [NoRet EXCEPT !.op = "reset-key",
                             !.position = position,
                             !.cursor0 = Cursor(poolFile.bytes)]
          IN  IF ~poolFile.exists \/ ~o.ok
              THEN /\ ret' = [result EXCEPT !.err = "open"]
                   /\ UNCHANGED poolFile
              ELSE /\ ret' = [result EXCEPT !.ok = TRUE]
                   /\ poolFile' = [poolFile EXCEPT !.bytes = w.bytes]
    /\ UNCHANGED <<pool, call, taken, consumed, reused, otherTaken, handle,
                   crashes, sessions>>

\* create-session with the name of a session that does not exist yet.
processCreateSessionNew ==
    /\ processCreateSession
    /\ ~sessions[ret'.name].exists

NextCliReset ==
    \/ processCreateKey
    \/ processCreateSessionNew
    \/ processSend
    \/ procesSessionReset
    \/ processPoolReset

SpecCliReset == Init /\ [][NextCliReset]_vars

\* The operations on a pool that exists: the pool of one process, the reading
\* and the writing of its cursor, and reset-key; no second PoolCreate.
MaxOffsetCalls == 1

\* GetPositionFromFile and SetPositionToFile, MaxOffsetCalls calls at most.
OffsetGetPositionFromFile ==
    /\ directCalls < MaxOffsetCalls
    /\ CallGetPositionFromFile

OffsetSetPositionToFile ==
    /\ directCalls < MaxOffsetCalls
    /\ CallSetPositionToFile

NextOffset ==
    \/ NextPool
    \/ OffsetGetPositionFromFile
    \/ OffsetSetPositionToFile
    \/ processPoolReset

SpecOffset == Init /\ [][NextOffset]_vars

\* -------------------------------------------- framing and its decoding
\* The lengths of the messages and of the chunks that are framed: the small
\* ones, those around boundaryLength, and those around MaxUint16.
MaxPayload == 8
MaxFrameChunk == 4
MessageLengths ==
    (0..MaxPayload)
        \cup {boundaryLength - 1, boundaryLength, boundaryLength + 1}
        \cup {MaxUint16 - 1, MaxUint16, MaxUint16 + 1}
ChunkLengths == (1..MaxFrameChunk) \cup {boundaryLength}

\* The calls of Message.Load: every length with the chunk length of the
\* program, the lengths up to boundaryLength + 1 with the small ones too.
Loads ==
    {c \in MessageLengths \X ChunkLengths :
        c[1] <= boundaryLength + 1 \/ c[2] = boundaryLength}

\* The content of a message file of n bytes; every third byte is zero.
Text(n) == [i \in 1..n |-> IF i % 3 = 0 THEN 0 ELSE 64 + (i % 64)]

\* The bytes of chunks of chunkLength bytes, one after the other (showMessage
\* lines 697-705 append them to clearMessage).
Concat(chunks, chunkLength) ==
    [k \in 1..(Len(chunks) * chunkLength) |->
        chunks[((k - 1) \div chunkLength) + 1][((k - 1) % chunkLength) + 1]]

\* showMessage lines 708-714: the length is read in a uint16 and the message
\* is clearMessage[2 : 2+messageLength], the sum computed on 16 bits; the
\* slice expression panics when its upper index is below 2 or beyond the
\* slice.
hiddenMessage(clearMessage) ==
    IF Len(clearMessage) < 2 THEN [ok |-> FALSE, bytes |-> <<>>]
    ELSE LET messageLength == clearMessage[1] + 256 * clearMessage[2]
             high == (2 + messageLength) % (MaxUint16 + 1)
         IN  IF high < 2 \/ high > Len(clearMessage)
             THEN [ok |-> FALSE, bytes |-> <<>>]
             ELSE [ok |-> TRUE, bytes |-> SubSeq(clearMessage, 3, high)]

\* Message.Load of a message file, on a Message without chunks: the one load
\* of a process, before anything else.
MessageLoadFile ==
    /\ ret = NoRet
    /\ \E c \in Loads :
          LET raw == Text(c[1])
              chunkSize == c[2]
              m == MessageLoad(raw, chunkSize)
          IN  ret' = [NoRet EXCEPT !.op = "Message.Load", !.ok = m.ok,
                          !.payload = raw, !.chunkLength = chunkSize,
                          !.chunks = m.chunks]
    /\ UNCHANGED <<poolFile, pool, call, History, handle, crashes, sessions>>

\* The decoding of showMessage on the chunks Message.Load made.
showMessageFramed ==
    /\ ret.op = "Message.Load"
    /\ ret.ok
    /\ LET h == hiddenMessage(Concat(ret.chunks, ret.chunkLength))
       IN  ret' = [ret EXCEPT !.op = "showMessage", !.ok = h.ok,
                       !.buffer = h.bytes]
    /\ UNCHANGED <<poolFile, pool, call, History, handle, crashes, sessions>>

NextFrame ==
    \/ MessageLoadFile
    \/ showMessageFramed

SpecFrame == Init /\ [][NextFrame]_vars

\* ------------------------------------------------ rcv, on the receiver
\* hex.DecodeString: two digits a byte, of either case; an error on a
\* character that is no digit and on an odd number of characters.
HexValue(c) ==
    IF \E d \in 1..16 : HexDigits[d] = c
    THEN (CHOOSE d \in 1..16 : HexDigits[d] = c) - 1
    ELSE IF c \in {"A", "B", "C", "D", "E", "F"}
    THEN CHOOSE v \in 10..15 :
             <<"A", "B", "C", "D", "E", "F">>[v - 9] = c
    ELSE -1
DecodeString(text) ==
    IF Len(text) % 2 = 1 \/ \E i \in 1..Len(text) : HexValue(text[i]) < 0
    THEN [ok |-> FALSE, bytes |-> <<>>]
    ELSE [ok |-> TRUE,
          bytes |-> [i \in 1..(Len(text) \div 2) |->
                        HexValue(text[2 * i - 1]) * 16 + HexValue(text[2 * i])]]

\* showMessage(boundaries) on the pool file of the receiver: PoolOpen (getKey),
\* GetBytesAsChunks(len(boundaries), boundaryLength), which writes the new
\* cursor, and only then the decoding of the boundaries, one after the other,
\* their exclusive or with the key and the cut of the message.  A panic ends
\* the process where it is.
showMessage(bytes, boundaries) ==
    LET o == GetPositionFromFile(bytes, TRUE)
        chunkCount == Len(boundaries)
        count == chunkCount * boundaryLength
        r == ReadFull(bytes, o.off, count)
        w == SetPositionToFile(bytes, newPosition(o.position, count))
        key == ChunksOf(r.data, chunkCount, boundaryLength)
        decoded == [i \in 1..chunkCount |-> DecodeString(boundaries[i])]
        clear == [i \in 1..chunkCount |-> cypher(key[i], decoded[i].bytes)]
        bad == {i \in 1..chunkCount : ~decoded[i].ok \/ ~clear[i].ok}
        first == CHOOSE i \in bad : \A j \in bad : i <= j
        h == hiddenMessage(Concat([i \in 1..chunkCount |-> clear[i].bytes],
                                  boundaryLength))
        none == [err |-> "none", bytes |-> bytes, message |-> <<>>,
                 from |-> 0, count |-> 0]
        taken0 == [none EXCEPT !.bytes = w.bytes,
                       !.from = o.off - positionTypeLength, !.count = count]
    IN  IF ~o.ok THEN [none EXCEPT !.err = "open"]
        ELSE IF count <= 0 THEN [none EXCEPT !.err = "panic"]
        ELSE IF ~r.ok THEN [none EXCEPT !.err = "key"]
        ELSE IF bad # {}
        THEN [taken0 EXCEPT !.err = IF decoded[first].ok THEN "panic"
                                    ELSE "hex"]
        ELSE IF ~h.ok THEN [taken0 EXCEPT !.err = "panic"]
        ELSE [taken0 EXCEPT !.message = h.bytes]

\* The key of the longest message: the chunks of MaxUint16 bytes and their
\* length prefix.
LongKeySource ==
    TestSource(((MaxUint16 + 1) \div boundaryLength + 1) * boundaryLength)

\* PoolCreate lines 50-75 on a path without a file: the header, a cursor of
\* zero, and after it the bytes of the source.
PoolCreateNew(source) == Zeros(positionTypeLength) \o source

\* create-key on the receiver, from the file the key of the sender was
\* created from.
processCreateKeyFrom ==
    /\ NoProcess
    /\ ~poolFile.exists
    /\ \E source \in {KeySource, LongKeySource} :
          poolFile' = [exists |-> TRUE, bytes |-> PoolCreateNew(source)]
    /\ ret' = [NoRet EXCEPT !.op = "create-key", !.ok = TRUE]
    /\ taken' = {}
    /\ consumed' = 0
    /\ reused' = FALSE
    /\ otherTaken' = {}
    /\ UNCHANGED <<pool, call, handle, crashes, directCalls, sessions>>

\* The messages of the sender: those of the commands and one of
\* MaxUint16 - 1 bytes, which Message.Load accepts.
ReceivedPayloads == Payloads \cup {Payload(MaxUint16 - 1)}

\* What the user of rcv selects (getEmails): the emails of the session, in
\* their order; the same with an email whose boundary is no hexadecimal
\* string, or one byte shorter; the emails of the session followed by those
\* of its second sending, after a reset-session.
Selections == {"session", "not-hex", "short", "twice"}
Selected(boundaries, selection) ==
    LET n == Len(boundaries)
        last == boundaries[n]
    IN  IF selection = "not-hex"
        THEN [boundaries EXCEPT ![n] = [last EXCEPT ![1] = "z"]]
        ELSE IF selection = "short"
        THEN [boundaries EXCEPT ![n] = SubSeq(last, 1, Len(last) - 2)]
        ELSE IF selection = "twice" THEN boundaries \o boundaries
        ELSE boundaries

\* The runs of rcv of one behaviour.
MaxDecodes == 2

\* rcv (processGetFullEmails, line 861): showMessage on the boundaries of the
\* emails of a session that a sender made with a pool of the same bytes and
\* the same cursor as the pool of the receiver.
processGetFullEmails ==
    /\ NoProcess
    /\ poolFile.exists
    /\ directCalls < MaxDecodes
    /\ directCalls' = directCalls + 1
    /\ \E raw \in ReceivedPayloads, selection \in Selections :
        \E sender \in {CreateSession(TRUE, poolFile.bytes, raw)} :
        \E boundaries \in {[i \in 1..Len(sender.session.Boundaries) |->
                              boundaryAsString(sender.session.Boundaries[i])]} :
        \E s \in {showMessage(poolFile.bytes,
                              Selected(boundaries, selection))} :
          LET range == s.from .. (s.from + s.count - 1)
          IN  /\ sender.err = "none"
              /\ ret' = [NoRet EXCEPT !.op = "rcv",
                             !.ok = (s.err = "none"),
                             !.err = s.err,
                             !.selection = selection,
                             !.payload = raw,
                             !.buffer = s.message,
                             !.count = Len(boundaries),
                             !.cursor0 = Cursor(poolFile.bytes),
                             !.position = Cursor(sender.bytes)]
              /\ poolFile' = [poolFile EXCEPT !.bytes = s.bytes]
              /\ taken' = taken \cup range
              /\ reused' = (reused \/ (range \cap taken # {}))
              /\ consumed' = consumed + s.count
    /\ UNCHANGED <<pool, call, handle, crashes, sessions, otherTaken>>

NextReceive ==
    \/ processCreateKeyFrom
    \/ processGetFullEmails

SpecReceive == Init /\ [][NextReceive]_vars

\* ------------------------------------------- PoolCreate, any source file
\* The source files: the bytes of the test suite and their complements, of
\* lengths around the multiples of bufferLength up to MaxBuffers buffers.
MaxBuffers == 4
SourceLengths ==
    {n \in {k * bufferLength + d : k \in 0..MaxBuffers, d \in {-1, 0, 1}} :
        n >= 0}
OtherSource(n) == [i \in 1..n |-> 255 - ((i - 1) % 256)]
Sources ==
    {TestSource(n) : n \in SourceLengths}
        \cup {OtherSource(n) : n \in SourceLengths}

\* os.OpenFile(poolPath, os.O_CREATE, 0644) asks for no write access: the
\* descriptor is read-only on a POSIX system, where each Write fails; the
\* Windows port of the os package adds the write access for O_CREATE.
Systems == {"windows", "posix"}
Writable(system) == system = "windows"

\* PoolCreate of a source on a system.  Without write access the file is
\* created empty, or stays as it is, and the Write of the header returns the
\* error PoolCreate returns.
PoolCreateOn(system, source) ==
    IF Writable(system)
    THEN PoolCreate(source)
    ELSE /\ ~pool.open
         /\ Idle
         /\ poolFile' = [poolFile EXCEPT !.exists = TRUE]
         /\ ret' = [NoRet EXCEPT !.op = "PoolCreate", !.err = "write",
                         !.payload = source]
         /\ UNCHANGED <<pool, call, History, handle, crashes, sessions>>

\* PoolCreate of a source file, of a pool file that does not exist.
PoolCreateFile ==
    /\ ~poolFile.exists
    /\ \E system \in Systems, source \in Sources :
          PoolCreateOn(system, source)

NextCreate ==
    \/ PoolCreateFile
    \/ PoolOpen
    \/ Close

SpecCreate == Init /\ [][NextCreate]_vars

\* ------------------------------------------------ PoolOpen, any pool file
\* PoolCreate of the source of the test suite, on either system.
PoolCreateAnySystem ==
    /\ ~poolFile.exists
    /\ \E system \in Systems : PoolCreateOn(system, TestSource(PoolLen))

\* The pool files PoolOpen meets: the empty one a failed PoolCreate left, and
\* those whose header takes or SetPositionToFile wrote.
NextOpen ==
    \/ PoolCreateAnySystem
    \/ PoolOpen
    \/ Close
    \/ GetBytes
    \/ GetBytesPersist
    \/ GetBytesSeek
    \/ GetBytesReturn
    \/ CallSetPositionToFile

SpecOpen == Init /\ [][NextOpen]_vars

\* ------------------------------------------------------------- the cipher
\* The byte slices cypher is called with: up to MaxCypherLen bytes each, of
\* bytes with no, one, alternate and all bits set.
MaxCypherLen == 2
CypherBytes == {0, 1, 85, 170, 255}
CypherInputs == UNION {[1..n -> CypherBytes] : n \in 0..MaxCypherLen}

\* cypher(b1, b2), on two slices chosen before anything else happened.
cypherCall ==
    /\ ret = NoRet
    /\ \E b1 \in CypherInputs, b2 \in CypherInputs :
          LET r == cypher(b1, b2)
          IN  ret' = [NoRet EXCEPT !.op = "cypher", !.ok = r.ok,
                          !.payload = b1, !.buffer = b2, !.mail = r.bytes]
    /\ UNCHANGED <<poolFile, pool, call, History, handle, crashes, sessions>>

\* cypher(cypher(b1, b2), b2): what showMessage does with a boundary that
\* processCreateSession made.
cypherBack ==
    /\ ret.op = "cypher"
    /\ ret.ok
    /\ LET r == cypher(ret.mail, ret.buffer)
       IN  ret' = [ret EXCEPT !.op = "cypher-back", !.ok = r.ok,
                       !.mail = r.bytes]
    /\ UNCHANGED <<poolFile, pool, call, History, handle, crashes, sessions>>

NextCypher ==
    \/ cypherCall
    \/ cypherBack

SpecCypher == Init /\ [][NextCypher]_vars

\* ------------------------------------------------------------ claims, pool
\* ------------------------------------------- Session.Save and Session.Load
\* The longest pool name that is saved, and the characters of the names: two
\* plain ones, the quote, the backslash and one character of HTML.
MaxNameLen == 2
NameChars == {"k", "n", "\"", "\\", "<"}
PoolNames ==
    {KeyName} \cup UNION {[1..n -> NameChars] : n \in 0..MaxNameLen}

\* The sessions that are saved: every pool name, an index and a pool position
\* below, at and above 0, and no, one empty, one and two boundaries.
SessionValues ==
    [PoolPointerPosition : {-1, 0, boundaryLength},
     PoolName : PoolNames,
     EmailIndex : {-1, 0, 2},
     Boundaries : {<<>>, << <<>> >>, << <<0, 255>> >>,
                   << <<1, 2>>, <<3, 4>> >>}]

\* s.Save(path) on a path without a file, then Load(path) into a zero Session.
SessionSaveThenLoad ==
    /\ ret = NoRet
    /\ \E s \in SessionValues :
          LET saved == SessionSave(NoSessionFile, s)
              l == SessionLoad(saved.file, ZeroSession)
          IN  ret' = [NoRet EXCEPT !.op = "Session.Save",
                          !.ok = saved.ok /\ l.ok,
                          !.err = IF ~saved.ok THEN "save"
                                  ELSE IF ~l.ok THEN "load" ELSE "none",
                          !.session = s,
                          !.json = saved.file.json,
                          !.loaded = l.session]
    /\ UNCHANGED <<poolFile, pool, call, History, handle, crashes, sessions>>

\* Load(path) into a zero Session of a record with the members email-index
\* and boundaries only, as the test TestLoad reads it.
SessionLoadOlder ==
    /\ ret = NoRet
    /\ \E s \in SessionValues :
          LET json == << <<"email-index", s.EmailIndex>>,
                         <<"boundaries", s.Boundaries>> >>
              l == SessionLoad([exists |-> TRUE, json |-> json], ZeroSession)
          IN  /\ s.PoolName = <<>>
              /\ s.PoolPointerPosition = 0
              /\ ret' = [NoRet EXCEPT !.op = "Session.Load", !.ok = l.ok,
                             !.session = s, !.json = json,
                             !.loaded = l.session]
    /\ UNCHANGED <<poolFile, pool, call, History, handle, crashes, sessions>>

NextSession ==
    \/ SessionSaveThenLoad
    \/ SessionLoadOlder

SpecSession == Init /\ [][NextSession]_vars

\* ------------------------------------------------------------ the claims
Takes == {"GetBytes", "GetBytesAsChunks"}

\* A take has just returned to its caller, with bytes or with an error.
TakeReturned == ret.op \in Takes /\ ret.count > 0

\* The key bytes left after the persisted cursor when the last take started.
Remaining0 == KeyLength(poolFile.bytes) - ret.cursor0

\* C1 - No double consumption: each successful take, whatever the closes and
\* reopens between the calls, returns exactly the key bytes [c, c + n) where c
\* is the sum of the counts of the earlier successful takes, and no key offset
\* is returned twice.
C1_NoDoubleConsumption ==
    /\ (TakeReturned /\ ret.ok) =>
          /\ ret.from = ret.consumed0
          /\ Len(ret.buffer) = ret.count
          /\ ret.buffer = KeyBytes(poolFile.bytes, ret.consumed0, ret.count)
    /\ ~reused

\* C1 witness: a take succeeded as the first take of a reopened pool, after
\* earlier takes had consumed key bytes.
C1_Witness ==
    /\ TakeReturned /\ ret.ok
    /\ ret.firstTake
    /\ ret.consumed0 > 0
    /\ ret.op = "GetBytes"

\* C2 - Crash safety: wherever the process stopped inside a take, the
\* persisted cursor is at or beyond the end of every range a successful take
\* returned, so no returned key byte is handed out again after a reopen.
C2_CrashSafety ==
    poolFile.exists =>
        /\ \A i \in taken : i < Cursor(poolFile.bytes)
        /\ ~reused

\* C2 witness: the process has stopped at each of the three intermediate
\* steps of a take, and a take of a reopened pool then returned bytes.
C2_Witness ==
    /\ {"persist", "seek", "advance"} \subseteq crashes
    /\ TakeReturned /\ ret.ok /\ ret.firstTake
    /\ ret.consumed0 > 0

\* C3 - Exhaustion is exact: a take of more bytes than remain after the
\* cursor fails, returns nothing and leaves the persisted and the in-memory
\* cursor as they were; a take of exactly the bytes that remain succeeds.
C3_ExhaustionExact ==
    TakeReturned =>
        /\ Remaining0 < ret.count =>
              /\ ~ret.ok
              /\ ret.buffer = <<>>
              /\ Cursor(poolFile.bytes) = ret.cursor0
              /\ pool.Position = ret.Position0
        /\ Remaining0 = ret.count => ret.ok

\* C4 - A failed take leaves the pool in its prior state: the take that
\* follows a take failed for lack of key bytes, on the same open pool, and
\* asks for no more than remains, succeeds with the bytes at the cursor.
C4_FailedTakeKeepsState ==
    (TakeReturned /\ ret.afterFailure /\ ret.count <= Remaining0) =>
        /\ ret.ok
        /\ ret.buffer = KeyBytes(poolFile.bytes, ret.cursor0, ret.count)

\* C5 - Persist before advance: while a take is between the write of the
\* header and its return, and when it returns bytes, the header holds the old
\* cursor plus count and the in-memory cursor changes only at the return; a
\* take whose header write failed returns an error and no bytes and leaves
\* the in-memory cursor as it was.
C5_PersistBeforeAdvance ==
    /\ call.pc \in {"seek", "advance"} =>
          /\ Cursor(poolFile.bytes) = call.Position0 + call.count
          /\ pool.Position = call.Position0
    /\ (TakeReturned /\ ret.ok) =>
          /\ Cursor(poolFile.bytes) = ret.Position0 + ret.count
          /\ pool.Position = ret.Position0 + ret.count
    /\ (TakeReturned /\ ret.err = "persist") =>
          /\ ~ret.ok
          /\ ret.buffer = <<>>
          /\ ret.chunks = <<>>
          /\ pool.Position = ret.Position0

\* C5 witness: the write of the header failed in a take of a pool whose
\* earlier takes had succeeded.
C5_Witness ==
    /\ TakeReturned /\ ret.err = "persist"
    /\ ret.Position0 > 0
    /\ ~ret.firstTake

\* C6 - GetPositionFromFile only inspects: it returns the cursor of the
\* header and changes neither the header, nor the in-memory cursor, nor the
\* position of the descriptor the next take reads from.
C6_CurrentOffsetReadOnly ==
    (ret.op = "GetPositionFromFile" /\ ret.ok) =>
        /\ ret.position = ret.cursor0
        /\ Cursor(poolFile.bytes) = ret.cursor0
        /\ pool.Position = ret.Position0
        /\ pool.off = ret.off0

\* C8 - Cursor invariant: the persisted cursor c of a pool satisfies
\* 0 <= c <= total key bytes in every reachable state.
C8_CursorInvariant ==
    Len(poolFile.bytes) >= positionTypeLength =>
        /\ 0 <= Cursor(poolFile.bytes)
        /\ Cursor(poolFile.bytes) <= KeyLength(poolFile.bytes)

\* C7 - GetBytesAsChunks is all or nothing: with chunkCount * chunkLength
\* bytes left it returns chunkCount slices of chunkLength bytes, slice i the
\* key bytes [c + i * chunkLength, c + (i + 1) * chunkLength), and the cursor
\* advances by the total; otherwise no chunk and the cursor unchanged.
C7_ChunksAllOrNothing ==
    (TakeReturned /\ ret.op = "GetBytesAsChunks") =>
        IF ret.chunkCount * ret.chunkLength <= Remaining0
        THEN /\ ret.ok
             /\ Len(ret.chunks) = ret.chunkCount
             /\ \A i \in 1..ret.chunkCount :
                   ret.chunks[i] =
                       KeyBytes(poolFile.bytes,
                                ret.cursor0 + (i - 1) * ret.chunkLength,
                                ret.chunkLength)
             /\ Cursor(poolFile.bytes) =
                    ret.cursor0 + ret.chunkCount * ret.chunkLength
        ELSE /\ ~ret.ok
             /\ ret.chunks = <<>>
             /\ Cursor(poolFile.bytes) = ret.cursor0

\* -------------------------------------------------------- claims, sessions
\* The session stored under a name, and the key range it records.
SessionOf(name) == SessionLoad(sessions[name], ZeroSession).session
KeyRangeOf(name) ==
    LET s == SessionOf(name)
    IN  s.PoolPointerPosition ..
            (s.PoolPointerPosition + boundaryLength * Len(s.Boundaries) - 1)

\* Byte k (from 1) of a framed message: the length, low byte first, the
\* payload, then zeros.
FramedByte(payload, k) ==
    IF k = 1 THEN Len(payload) % 256
    ELSE IF k = 2 THEN Len(payload) \div 256
    ELSE IF k <= Len(payload) + 2 THEN payload[k - 2]
    ELSE 0

\* C9 - Key chunks are owned by one session: the key ranges
\* [pool-position, pool-position + 35 * len(boundaries)) recorded by distinct
\* sessions are pairwise disjoint, each is a range that was drawn from the
\* pool, and no key offset was drawn twice.
C9_KeyChunksOwnedByOneSession ==
    /\ \A a, b \in SessionNames :
          (a # b /\ sessions[a].exists /\ sessions[b].exists) =>
              KeyRangeOf(a) \cap KeyRangeOf(b) = {}
    /\ \A a \in SessionNames :
          sessions[a].exists => KeyRangeOf(a) \subseteq taken
    /\ ~reused

\* C9 witness: two sessions exist, the second created after emails of the
\* first were sent, and both hold boundaries.
C9_Witness ==
    /\ \A a \in SessionNames :
          sessions[a].exists /\ Len(SessionOf(a).Boundaries) > 0
    /\ \E a \in SessionNames : SessionOf(a).EmailIndex > 0
    /\ ret.op = "create-session" /\ ret.ok

\* C10 - Session creation: the stored session has one boundary for each chunk
\* of the framed message, boundaries[i] = message chunk i XOR key chunk i, 35
\* bytes each, the key name, the cursor from before the draw as pool-position
\* and email-index 0; the cursor afterwards is pool-position plus
\* 35 * len(boundaries).
C10_SessionCreation ==
    (ret.op = "create-session" /\ ret.ok) =>
        LET s == SessionOf(ret.name)
            chunkCount == (Len(ret.payload) + 2 + boundaryLength - 1)
                              \div boundaryLength
        IN  /\ sessions[ret.name].exists
            /\ Len(s.Boundaries) = chunkCount
            /\ \A i \in 1..chunkCount :
                  /\ Len(s.Boundaries[i]) = boundaryLength
                  /\ \A j \in 1..boundaryLength :
                        s.Boundaries[i][j] =
                            Xor(FramedByte(ret.payload,
                                           (i - 1) * boundaryLength + j),
                                KeyRegion(poolFile.bytes)
                                    [ret.cursor0 + (i - 1) * boundaryLength + j])
            /\ s.PoolName = KeyName
            /\ s.PoolPointerPosition = ret.cursor0
            /\ s.EmailIndex = 0
            /\ Cursor(poolFile.bytes) =
                   s.PoolPointerPosition + boundaryLength * Len(s.Boundaries)

\* C10 witness: a session of two boundaries was created from a key of which
\* an earlier session had consumed a part.
C10_Witness ==
    /\ ret.op = "create-session" /\ ret.ok
    /\ Len(SessionOf(ret.name).Boundaries) = 2
    /\ ret.cursor0 > 0

\* C11 - A failed create-session leaves no partial state: whenever
\* create-session returns an error, the cursor in the header of the pool is
\* the one from before the command and no session record was created or
\* changed.
C11_FailedCreateSessionKeepsState ==
    [][(ret'.op = "create-session" /\ ~ret'.ok) =>
          /\ Cursor(poolFile'.bytes) = Cursor(poolFile.bytes)
          /\ sessions' = sessions]_vars

\* ---------------------------------------------------------- claims, framing
\* C12 - Framing: for a payload of n <= 65535 bytes and chunk length L,
\* Message.Load makes exactly ceil((2+n)/L) chunks, at least one, each of L
\* bytes; one after the other they are the length n on 2 bytes, low byte
\* first, the payload, then zeros only, fewer than L of them.
C12_Framing ==
    (ret.op = "Message.Load" /\ Len(ret.payload) <= MaxUint16) =>
        LET n == Len(ret.payload)
            L == ret.chunkLength
            count == (2 + n + L - 1) \div L
        IN  /\ ret.ok
            /\ Len(ret.chunks) = count
            /\ count >= 1
            /\ \A i \in 1..count : Len(ret.chunks[i]) = L
            /\ \A k \in 1..(count * L) :
                  ret.chunks[((k - 1) \div L) + 1][((k - 1) % L) + 1] =
                      IF k = 1 THEN n % 256
                      ELSE IF k = 2 THEN n \div 256
                      ELSE IF k <= n + 2 THEN ret.payload[k - 2]
                      ELSE 0
            /\ count * L - (2 + n) < L

\* C12 witness: a message that needs padding in its third chunk of 35 bytes.
C12_Witness ==
    /\ ret.op = "Message.Load" /\ ret.ok
    /\ ret.chunkLength = boundaryLength
    /\ Len(ret.payload) = boundaryLength + 1
    /\ Len(ret.chunks) = 2
    /\ ret.chunks[2][boundaryLength] = 0

\* C13 - PayloadTooLarge: Message.Load fails exactly when the payload has more
\* than 65535 bytes, and then it makes no chunk.
C13_PayloadTooLarge ==
    (ret.op = "Message.Load") =>
        /\ ret.ok <=> (Len(ret.payload) <= 65535)
        /\ ~ret.ok => ret.chunks = <<>>

\* C13 witness: the payload of 65535 bytes was accepted.
C13_Witness ==
    /\ ret.op = "Message.Load" /\ ret.ok
    /\ Len(ret.payload) = 65535
    /\ ret.chunks # <<>>

\* C14 - Framing round-trip: the decoder of showMessage, applied to the chunks
\* of a framed payload of 0..65535 bytes, gives the payload back.
C14_FramingRoundTrip ==
    (ret.op = "showMessage") => (ret.ok /\ ret.buffer = ret.payload)

\* ----------------------------------------------------------- claims, cipher
\* The exclusive or of two bytes, bit by bit.
Bit(x, j) == (x \div (2 ^ j)) % 2
BitXor(a, b) ==
    LET d(j) == ((Bit(a, j) + Bit(b, j)) % 2) * (2 ^ j)
    IN  d(0) + d(1) + d(2) + d(3) + d(4) + d(5) + d(6) + d(7)

\* C15 - Cipher: for p and k of equal length cypher(p, k) has that length,
\* its i-th byte is p[i] XOR k[i], and cypher(cypher(p, k), k) = p; for
\* different lengths cypher panics and returns nothing.
C15_Cipher ==
    /\ (ret.op = "cypher") =>
          /\ ret.ok <=> (Len(ret.payload) = Len(ret.buffer))
          /\ ret.ok =>
                /\ Len(ret.mail) = Len(ret.payload)
                /\ \A i \in 1..Len(ret.payload) :
                      ret.mail[i] = BitXor(ret.payload[i], ret.buffer[i])
          /\ ~ret.ok => ret.mail = <<>>
    /\ (ret.op = "cypher-back") => (ret.ok /\ ret.mail = ret.payload)

\* C15 witness: two different slices of 2 bytes were combined and combined
\* again with the second one.
C15_Witness ==
    /\ ret.op = "cypher-back" /\ ret.ok
    /\ Len(ret.payload) = 2
    /\ ret.payload = <<85, 255>>
    /\ ret.buffer = <<170, 1>>
    /\ ret.mail = ret.payload

\* --------------------------------------------------- claims, pool creation
\* C16 - Pool creation: PoolCreate of a source of N bytes succeeds and leaves
\* a pool file of 8+N bytes, 8 zero bytes then the bytes of the source in
\* their order, and a pool opened afterwards reports the cursor 0.
C16_PoolCreation ==
    /\ (ret.op = "PoolCreate") =>
          /\ ret.ok
          /\ poolFile.bytes = Zeros(positionTypeLength) \o ret.payload
    /\ (ret.op = "PoolOpen" /\ poolFile.exists) =>
          (ret.ok /\ ret.position = 0)

\* C17 - PoolCreate fails when the pool file exists already, and leaves its
\* header and its key bytes as they were.
C17_CreateKeepsExistingPool ==
    [][(ret'.op = "PoolCreate" /\ poolFile.exists) =>
          (~ret'.ok /\ poolFile' = poolFile)]_vars

\* C18 - PoolOpen validates the header: it succeeds exactly when the file
\* holds 8 header bytes whose little-endian value is not negative; the Pool
\* then has that value as Position and the take that follows starts at it;
\* PoolOpen, failed or not, leaves the file as it is.
C18_OpenValidatesHeader ==
    /\ [](ret.op = "PoolOpen" =>
            LET wellFormed == /\ poolFile.exists
                              /\ Len(poolFile.bytes) >= positionTypeLength
                              /\ poolFile.bytes[positionTypeLength] < 128
            IN  /\ ret.ok <=> wellFormed
                /\ ret.ok =>
                      /\ pool.open
                      /\ pool.Position = Cursor(poolFile.bytes)
                      /\ pool.Position >= 0
                /\ ~ret.ok => ~pool.open)
    /\ [][ret'.op = "PoolOpen" => poolFile' = poolFile]_vars
    /\ [][(ret.op = "PoolOpen" /\ ret.ok /\ call'.pc = "persist") =>
             /\ call'.from = ret.position
             /\ call'.buffer =
                    KeyBytes(poolFile.bytes, ret.position, call'.count)]_vars
    /\ [][(ret.op = "PoolOpen" /\ ret.ok /\ ret'.op \in Takes) =>
             ret'.from = ret.position]_vars

\* C18 witness: the first take on a pool opened at a cursor above 0 returned.
C18_Witness ==
    /\ ret.op \in Takes /\ ret.ok
    /\ ret.firstTake
    /\ ret.Position0 > 0
    /\ ret.from = ret.Position0

C21_ResetProgress ==
    [][(ret'.op = "reset-session" /\ ret'.ok) =>
          LET name == ret'.name
              before == sessions[name].json
              after == SessionLoad(sessions'[name], ZeroSession).session
          IN  /\ sessions[name].exists
              /\ sessions'[name].exists
              /\ Len(before) = 4
              /\ before[1][1] = "email-index"
              /\ sessions'[name].json = [before EXCEPT ![1] = <<"email-index", 0>>]
              /\ after.EmailIndex = 0
              /\ poolFile' = poolFile
              /\ \A other \in SessionNames \ {name} :
                    sessions'[other] = sessions[other]
              /\ (ret.op = "reset-session" /\ ret.ok /\ ret.name = name)
                    => sessions' = sessions]_vars

\* A session of two boundaries drawn at a pool position above 0 was reset,
\* while the other session is in progress.
C21_Witness ==
    /\ ret.op = "reset-session"
    /\ ret.ok
    /\ SessionOf(ret.name).EmailIndex = 0
    /\ Len(SessionOf(ret.name).Boundaries) = 2
    /\ SessionOf(ret.name).PoolName = KeyName
    /\ SessionOf(ret.name).PoolPointerPosition > 0
    /\ \E other \in SessionNames \ {ret.name} :
          /\ sessions[other].exists
          /\ SessionOf(other).EmailIndex = 1

\* ------------------------------------------------------------------- C22
\* C22: once the record of a session exists, no command (create-session,
\* send, reset-session, info-session, create-key, info-key) changes its
\* boundaries: their number and their bytes stay those of its creation.
C22_CiphertextFixed ==
    [][\A name \in SessionNames :
          (sessions[name].exists /\ SessionLoad(sessions[name], ZeroSession).ok)
              => /\ SessionLoad(sessions'[name], ZeroSession).ok
                 /\ SessionLoad(sessions'[name], ZeroSession).session.Boundaries
                      = SessionLoad(sessions[name], ZeroSession).session.Boundaries]_vars

\* ------------------------------------------------------------------- C23
\* The state of a session: Created (index = 0), InProgress (0 < index < total)
\* and Complete (index = total).
SessionState(s) ==
    IF s.EmailIndex = 0 THEN "Created"
    ELSE IF s.EmailIndex < Len(s.Boundaries) THEN "InProgress"
    ELSE "Complete"

\* The two lowercase hexadecimal digits of every byte, the first byte first.
LowerHex(bytes) ==
    LET digit(d) == IF d < 10 THEN <<"0", "1", "2", "3", "4",
                                     "5", "6", "7", "8", "9">>[d + 1]
                    ELSE <<"a", "b", "c", "d", "e", "f">>[d - 9]
    IN  [i \in 1..(2 * Len(bytes)) |->
            IF i % 2 = 1 THEN digit(bytes[(i + 1) \div 2] \div 16)
            ELSE digit(bytes[(i + 1) \div 2] % 16)]

\* The k-th successful send of a session of N boundaries, counted from
\* email-index 0: it delivers one email whose MIME boundary is boundaries[k-1]
\* in lowercase hexadecimal, and records email-index k.
SendStep(before, after, mail) ==
    LET k == before.EmailIndex + 1
    IN  /\ k <= Len(before.Boundaries)
        /\ mail = LowerHex(before.Boundaries[k])
        /\ after = [before EXCEPT !.EmailIndex = k]
        /\ (k = Len(before.Boundaries))
              => Len(after.Boundaries) - after.EmailIndex = 0

\* C23: every successful send is the step k = email-index + 1 of its session:
\* after N of them from email-index 0 the index is N and no email is left to
\* send (info-session prints 0). The session goes from Created over
\* InProgress to Complete when N >= 2, and from Created to Complete at once
\* when N = 1: it is Complete exactly after the N-th send.
C23_SendingCompletes ==
    /\ []((ret.op = "info-session" /\ ret.ok
             /\ SessionState(SessionOf(ret.name)) = "Complete")
            => ret.count = 0)
    /\ [][(ret'.op = "send" /\ ret'.ok) =>
             LET before == SessionLoad(sessions[ret'.name], ZeroSession).session
                 after == SessionLoad(sessions'[ret'.name], ZeroSession).session
             IN  /\ SendStep(before, after, ret'.mail)
                 /\ SessionState(before) \in {"Created", "InProgress"}
                 /\ SessionState(after) =
                        IF after.EmailIndex = Len(after.Boundaries)
                        THEN "Complete" ELSE "InProgress"
                 /\ (Len(before.Boundaries) >= 2
                        /\ SessionState(before) = "Created")
                       => SessionState(after) = "InProgress"]_vars

\* C23 witness: the second email of a session of two boundaries was sent with
\* the second boundary, 70 hexadecimal digits with letters among them, and
\* the session is Complete.
C23_Witness ==
    /\ ret.op = "send" /\ ret.ok
    /\ Len(SessionOf(ret.name).Boundaries) = 2
    /\ SessionState(SessionOf(ret.name)) = "Complete"
    /\ ret.mail = LowerHex(SessionOf(ret.name).Boundaries[2])
    /\ Len(ret.mail) = 2 * boundaryLength
    /\ \E i \in 1..Len(ret.mail) : ret.mail[i] \in {"a", "b", "c", "d", "e", "f"}

\* C23 as it is stated: every session passes through Created, InProgress and
\* Complete in that order, so that the send that leaves Created leads to
\* InProgress.
C23_ThroughInProgress ==
    [][(ret'.op = "send" /\ ret'.ok) =>
          LET before == SessionLoad(sessions[ret'.name], ZeroSession).session
              after == SessionLoad(sessions'[ret'.name], ZeroSession).session
          IN  /\ SendStep(before, after, ret'.mail)
              /\ (SessionState(before) = "Created")
                    => SessionState(after) = "InProgress"
              /\ (SessionState(after) = "Complete")
                    => SessionState(before) = "InProgress"]_vars

\* ------------------------------------------------------------------- C24
\* C24: the persisted email-index counts the deliveries: a send changes it
\* only when the mail server accepted the email, and every send whose email
\* the mail server accepted adds 1 to it, whatever step fails afterwards; no
\* other command but a creation or a reset of the session changes it.
C24_IndexCountsDeliveries ==
    [][\A name \in SessionNames :
          LET before == SessionLoad(sessions[name], ZeroSession)
              after == SessionLoad(sessions'[name], ZeroSession)
              delivered == ret'.op = "send" /\ ret'.name = name
                              /\ ret'.mail # <<>>
          IN  before.ok =>
                /\ delivered =>
                      /\ after.ok
                      /\ after.session.EmailIndex = before.session.EmailIndex + 1
                /\ (~delivered /\ after.ok
                      /\ ~(ret'.op \in {"create-session", "reset-session"}
                            /\ ret'.name = name))
                      => after.session.EmailIndex = before.session.EmailIndex]_vars

\* ------------------------------------------------------------------- C25
\* C25: two processes on one pool file hand out the same key bytes.  A take
\* of a process never reads the header: it returns the bytes at the Position
\* its Pool holds.  So whenever the process writes the header of a take while
\* the header no longer holds its Position, because the other process took
\* bytes since this one read or wrote the header, the key byte at its Position
\* has been returned to the other process as well, and its write replaces the
\* cursor of the other process.
C25_SharedPoolRace ==
    /\ []((ret.op \in Takes /\ ret.ok)
            => /\ ret.from = ret.Position0
               /\ ret.buffer = KeyBytes(poolFile.bytes, ret.Position0, ret.count))
    /\ [][(call.pc = "persist" /\ call'.pc = "seek"
              /\ Cursor(poolFile.bytes) # call.Position0)
            => /\ call.Position0 \in otherTaken
               /\ call.from = call.Position0
               /\ Cursor(poolFile'.bytes) = call.Position0 + call.count]_vars

\* C25 witness: both processes read the same cursor before either wrote it:
\* the first take of this process found the header equal to its Position, it
\* succeeded, and a key byte it returned was returned to the other process.
C25_Witness ==
    /\ ret.op \in Takes
    /\ ret.ok
    /\ ret.firstTake
    /\ ret.cursor0 = ret.Position0
    /\ (ret.from .. (ret.from + ret.count - 1)) \cap otherTaken # {}
    /\ taken \cap otherTaken # {}

\* ------------------------------------------------------------------- C26
\* C26: for every session s, s.Save succeeds and the Load of the record it
\* wrote gives a session equal to s in its four fields; the Load of a record
\* with the members email-index and boundaries only gives that index and
\* those boundaries in their order.
C26_SaveLoadRoundTrip ==
    /\ (ret.op = "Session.Save") =>
          /\ ret.ok
          /\ ret.loaded.EmailIndex = ret.session.EmailIndex
          /\ ret.loaded.PoolName = ret.session.PoolName
          /\ ret.loaded.PoolPointerPosition = ret.session.PoolPointerPosition
          /\ ret.loaded.Boundaries = ret.session.Boundaries
    /\ (ret.op = "Session.Load") =>
          /\ ret.ok
          /\ ret.loaded.EmailIndex = ret.session.EmailIndex
          /\ ret.loaded.Boundaries = ret.session.Boundaries

HidesPayload(s, payload) ==
    /\ Len(s.Boundaries) = (Len(payload) + 2 + boundaryLength - 1)
                              \div boundaryLength
    /\ \A i \in 1..Len(s.Boundaries) :
          \A j \in 1..boundaryLength :
              LET k == (i - 1) * boundaryLength + j
              IN  BitXor(s.Boundaries[i][j],
                         KeyRegion(poolFile.bytes)[s.PoolPointerPosition + k])
                    = FramedByte(payload, k)

C29_DeliveryKeepsPool ==
    [][(ret'.op \in {"send", "reset-session", "info-session"}) =>
          /\ poolFile'.exists = poolFile.exists
          /\ Cursor(poolFile'.bytes) = Cursor(poolFile.bytes)
          /\ KeyRegion(poolFile'.bytes) = KeyRegion(poolFile.bytes)
          /\ poolFile' = poolFile]_vars

\* C29 witness: the delivery of a send failed after two sessions had drawn
\* two chunks of the key, and the cursor is still behind them.
C29_Witness ==
    /\ ret.op = "send"
    /\ ret.err = "smtp"
    /\ \A name \in SessionNames : sessions[name].exists
    /\ Cursor(poolFile.bytes) = 2 * boundaryLength
    /\ taken = 0 .. (2 * boundaryLength - 1)

\* ------------------------------------------------------------------- C30
\* C30: no operation on a pool that exists (PoolOpen, GetBytes,
\* GetBytesAsChunks, GetPositionFromFile, SetPositionToFile, reset-key)
\* changes a byte of the key region or the length of the file: a take and a
\* SetPositionToFile rewrite the 8 bytes of the header only, and after
\* SetPositionToFile(p) the cursor of the header is p.
C30_KeyRegionImmutable ==
    [][poolFile.exists =>
          /\ poolFile'.exists
          /\ KeyRegion(poolFile'.bytes) = KeyRegion(poolFile.bytes)
          /\ Len(poolFile'.bytes) = Len(poolFile.bytes)
          /\ (/\ ret' # ret
              /\ ret'.op \in {"SetPositionToFile", "reset-key"}
              /\ ret'.ok)
                => Cursor(poolFile'.bytes) = ret'.position]_vars

\* C30 witness: SetPositionToFile(1) returned on a pool whose cursor was
\* further, after a take; the header holds 1 and the key is the source.
C30_Witness ==
    /\ ret.op = "SetPositionToFile"
    /\ ret.ok
    /\ ret.position = 1
    /\ ret.cursor0 > 1
    /\ taken # {}
    /\ Cursor(poolFile.bytes) = 1
    /\ KeyRegion(poolFile.bytes) = TestSource(PoolLen)

\* ------------------------------------------------------------------- C31
\* C31: after every completed operation on an open Pool (PoolOpen,
\* PoolCreate, GetBytes, GetBytesAsChunks, GetPositionFromFile,
\* SetPositionToFile, succeeded or failed) the Position of the Pool equals
\* the cursor of the header and the descriptor is at 8 + Position, where the
\* next GetBytes reads.
C31_HandleConsistent ==
    (pool.open /\ Idle) =>
        /\ pool.Position = Cursor(poolFile.bytes)
        /\ pool.off = seek(pool.Position)

\* ------------------------------------------------------------------- C32
\* C32: when a send or a reset-session is interrupted, in the middle of Save
\* too, the record of the session on disk can be loaded and is the record
\* before the command or the record the command was writing, never an empty
\* or a partial one.
C32_RecordSurvivesInterruption ==
    [][(ret' # ret /\ ret'.err = "interrupted") =>
          /\ SessionLoad(sessions'[ret'.name], ZeroSession).ok
          /\ \/ sessions'[ret'.name] = sessions[ret'.name]
             \/ sessions'[ret'.name].json = ret'.json]_vars

\* ------------------------------------------------------------------- C33
\* C33: when the pool of the receiver holds the key bytes of the sender and
\* its cursor is the pool-position of the session, the decoding of the N
\* boundaries of the session in their order gives the payload, and the
\* cursor of the receiver is then the cursor of the sender after
\* create-session, pool-position + 35 * N.
C33_SenderReceiverAgree ==
    (ret.op = "rcv" /\ ret.selection = "session") =>
        /\ ret.ok
        /\ ret.buffer = ret.payload
        /\ Cursor(poolFile.bytes) = ret.position
        /\ Cursor(poolFile.bytes) = ret.cursor0 + boundaryLength * ret.count

\* ------------------------------------------------------------------- C34
\* C34: when showMessage fails (a boundary that is no hexadecimal string or
\* does not decode to 35 bytes, or fewer than 35 * len(boundaries) key bytes
\* left) the cursor of the pool of the receiver is what it was before.
C34_FailedDecodeKeepsKey ==
    (ret.op = "rcv" /\ ~ret.ok) => Cursor(poolFile.bytes) = ret.cursor0

====
